---- MODULE Spec2Model ----
(***************************************************************************)
(* django_dynamic_admin: runtime composition of Django admin classes.      *)
(*                                                                         *)
(* State: the class objects that exist (Python classes created by class    *)
(* statements and by type()), and admin.site._registry, the mapping from   *)
(* model class to the admin class registered for it.  One action per       *)
(* public function of src/django_dynamic_admin/__init__.py.                *)
(***************************************************************************)
EXTENDS Integers, Sequences, FiniteSets, TLC

\* Number of calls of the public functions in one behaviour.
MaxCalls == 3

(***************************************************************************)
(* Python values held in class attributes.                                 *)
(***************************************************************************)
Str(s) == [t |-> "str", s |-> s, c |-> 0]
Callable(s) == [t |-> "callable", s |-> s, c |-> 0]
Cls(c) == [t |-> "cls", s |-> "", c |-> c]
Mdl(s) == [t |-> "model", s |-> s, c |-> 0]
PyNone == [t |-> "None", s |-> "", c |-> 0]

List(items) == [kind |-> "list", items |-> items]
Tuple(items) == [kind |-> "tuple", items |-> items]
Scalar(e) == [kind |-> "scalar", items |-> <<e>>]
Absent == [kind |-> "absent", items |-> <<>>]
TypeErrorValue == [kind |-> "TypeError", items |-> <<>>]

\* a + b on sequences: list + list and tuple + tuple concatenate, a tuple
\* and a list cannot be added (TypeError).
PyAdd(a, b) ==
    IF a.kind = b.kind /\ a.kind \in {"list", "tuple"}
    THEN [kind |-> a.kind, items |-> a.items \o b.items]
    ELSE TypeErrorValue

\* list(v)
PyList(v) == List(v.items)

\* truth value of a sequence
Truthy(v) == Len(v.items) > 0

\* isinstance(column, basestring)
IsBasestring(column) == column.t = "str"

Elems(v) == {v.items[i] : i \in 1..Len(v.items)}

Min(S) == CHOOSE x \in S : \A y \in S : x <= y

(***************************************************************************)
(* Classes.  A class is a record of its name, its bases, its method        *)
(* resolution order and its own attributes; a class is identified by its   *)
(* position in the sequence of all classes.                                *)
(***************************************************************************)
AttrNames == {"inlines", "list_display", "list_display_links", "model", "ordering"}
NoAttrs == [a \in AttrNames |-> Absent]
With(attrs, name, v) == [attrs EXCEPT ![name] = v]

\* No class: the registry has no entry for the model (KeyError).
NoClass == 0

NonEmpty(l) == Len(l) > 0
InTail(x, l) == \E i \in 2..Len(l) : l[i] = x
IsNot(x, y) == x # y
Without(l, x) == LET keep(y) == IsNot(y, x) IN SelectSeq(l, keep)

\* The merge step of Python's C3 linearisation; <<NoClass>> when no
\* consistent order exists.
RECURSIVE C3Merge(_)
C3Merge(lists) ==
    LET ne == SelectSeq(lists, NonEmpty)
    IN IF Len(ne) = 0 THEN <<>>
       ELSE LET cands == {i \in 1..Len(ne) :
                            \A j \in 1..Len(ne) : ~InTail(ne[i][1], ne[j])}
            IN IF cands = {} THEN <<NoClass>>
               ELSE LET h == ne[Min(cands)][1]
                        rest == C3Merge([j \in 1..Len(ne) |-> Without(ne[j], h)])
                    IN IF rest = <<NoClass>> THEN <<NoClass>> ELSE <<h>> \o rest

\* type(name, bases, attrs): a new class appended to heap, or TypeError when
\* the bases have no consistent method resolution order.
TypeNew(heap, name, bases, attrs) ==
    LET id == Len(heap) + 1
        tail == C3Merge([i \in 1..Len(bases) |-> heap[bases[i]].mro] \o <<bases>>)
    IN IF tail = <<NoClass>>
       THEN [err |-> "TypeError", heap |-> heap, cls |-> NoClass]
       ELSE [err |-> "none",
             heap |-> Append(heap, [name |-> name, bases |-> bases,
                                    mro |-> <<id>> \o tail, attrs |-> attrs]),
             cls |-> id]

\* getattr(cls, name, default): the attribute of the first class of the
\* method resolution order that has it.
GetAttr(heap, cls, name, default) ==
    LET mro == heap[cls].mro
        hits == {i \in 1..Len(mro) : heap[mro[i]].attrs[name].kind # "absent"}
    IN IF hits = {} THEN default ELSE heap[mro[Min(hits)]].attrs[name]

HasAttr(heap, cls, name) == GetAttr(heap, cls, name, Absent).kind # "absent"

(***************************************************************************)
(* The classes that exist before any call: the framework's, and the        *)
(* admin classes, inlines and enhancements of the application.             *)
(***************************************************************************)
Object == 1
ModelAdmin == 2
StackedInline == 3
InlineX == 4
ListAdmin == 5
TupleAdmin == 6
MixinE == 7
AdminE == 8

ModelAdminAttrs ==
    [NoAttrs EXCEPT !["list_display"] = Tuple(<<Str("__str__")>>),
                    !["list_display_links"] = Tuple(<<>>),
                    !["inlines"] = List(<<>>),
                    !["ordering"] = Scalar(PyNone)]
ListAdminAttrs ==
    [NoAttrs EXCEPT !["list_display"] = List(<<Str("name"), Str("city")>>),
                    !["list_display_links"] = List(<<Str("city")>>),
                    !["inlines"] = List(<<Cls(InlineX)>>),
                    !["ordering"] = Scalar(Str("old"))]
TupleAdminAttrs ==
    [NoAttrs EXCEPT !["list_display"] = Tuple(<<Str("name"), Str("city")>>),
                    !["inlines"] = Tuple(<<Cls(InlineX)>>)]
MixinEAttrs ==
    [NoAttrs EXCEPT !["ordering"] = Scalar(Str("new")),
                    !["list_display"] = List(<<Str("extra")>>)]
AdminEAttrs ==
    [NoAttrs EXCEPT !["ordering"] = Scalar(Str("new"))]

StaticClasses ==
    LET h1 == TypeNew(<<>>, "object", <<>>, NoAttrs).heap
        h2 == TypeNew(h1, "ModelAdmin", <<Object>>, ModelAdminAttrs).heap
        h3 == TypeNew(h2, "StackedInline", <<Object>>, NoAttrs).heap
        h4 == TypeNew(h3, "InlineX", <<StackedInline>>,
                      With(NoAttrs, "model", Scalar(Mdl("E0")))).heap
        h5 == TypeNew(h4, "ListAdmin", <<ModelAdmin>>, ListAdminAttrs).heap
        h6 == TypeNew(h5, "TupleAdmin", <<ModelAdmin>>, TupleAdminAttrs).heap
        h7 == TypeNew(h6, "MixinE", <<Object>>, MixinEAttrs).heap
    IN TypeNew(h7, "AdminE", <<ModelAdmin>>, AdminEAttrs).heap

\* Inputs of the calls.
Models == {"M1"}
InitialAdmins == {ModelAdmin, ListAdmin, TupleAdmin}
EnhancementModels == {"E1", "E2"}
InlineBases == {StackedInline}
Columns == {Str("email"), Callable("full_name")}
Enhancements == {MixinE, AdminE}

VARIABLES classes, registry, last, prev, lastOk, result, ncalls
vars == <<classes, registry, last, prev, lastOk, result, ncalls>>

(***************************************************************************)
(* admin.site: unregister(model) and register(model, admin_class).         *)
(***************************************************************************)
SiteUnregister(reg, m) ==
    IF reg[m] = NoClass
    THEN [err |-> "NotRegistered", reg |-> reg]
    ELSE [err |-> "none", reg |-> [reg EXCEPT ![m] = NoClass]]

SiteRegister(reg, m, cls) ==
    IF reg[m] # NoClass
    THEN [err |-> "AlreadyRegistered", reg |-> reg]
    ELSE [err |-> "none", reg |-> [reg EXCEPT ![m] = cls]]

get_admin_class_default(reg, model_class) == ModelAdmin

get_admin_class(reg, model_class) ==
    IF reg[model_class] # NoClass THEN reg[model_class] ELSE ModelAdmin

(***************************************************************************)
(* The record of a call: its arguments, what it read before acting, the    *)
(* admin.site operations it invoked, and how it ended.                     *)
(***************************************************************************)
NoCall ==
    [op |-> "none", model |-> "", admin_class |-> NoClass, preReg |-> NoClass,
     preInlines |-> Absent, preLD |-> Absent, preLinks |-> Absent,
     e |-> "", ic |-> NoClass, column |-> PyNone, link |-> FALSE,
     prepend |-> FALSE, enh |-> NoClass, prefer_new |-> FALSE,
     siteOps |-> <<>>, err |-> "none", made |-> NoClass]

Call(op, m) ==
    LET ac == get_admin_class(registry, m)
    IN [NoCall EXCEPT !.op = op, !.model = m, !.admin_class = ac,
                      !.preReg = registry[m],
                      !.preInlines = GetAttr(classes, ac, "inlines", Absent),
                      !.preLD = GetAttr(classes, ac, "list_display", Absent),
                      !.preLinks = GetAttr(classes, ac, "list_display_links", Absent)]

Raised(call, ops, err) == [call EXCEPT !.siteOps = ops, !.err = err]
Returned(call, ops, cls) == [call EXCEPT !.siteOps = ops, !.made = cls]

Done(call, reg, heap) ==
    /\ registry' = reg
    /\ classes' = heap
    /\ prev' = last
    /\ last' = call
    /\ lastOk' = IF call.err = "none" /\ call.made # NoClass
                 THEN [lastOk EXCEPT ![call.model] = call.made]
                 ELSE lastOk
    /\ ncalls' = ncalls + 1

Init ==
    /\ classes = StaticClasses
    /\ registry \in [Models -> InitialAdmins \cup {NoClass}]
    /\ last = NoCall
    /\ prev = NoCall
    /\ lastOk = [m \in Models |-> NoClass]
    /\ result = NoClass
    /\ ncalls = 0

GetAdminClass(model_class) ==
    /\ ncalls < MaxCalls
    /\ result' = get_admin_class(registry, model_class)
    /\ Done(Call("get_admin_class", model_class), registry, classes)

attach_inline_to_admin(model_class, model_enhancement, inline_class) ==
    /\ ncalls < MaxCalls
    /\ UNCHANGED result
    /\ LET admin_class == get_admin_class(registry, model_class)
           call == [Call("attach_inline_to_admin", model_class)
                       EXCEPT !.e = model_enhancement, !.ic = inline_class]
           un == SiteUnregister(registry, model_class)
           ti == TypeNew(classes, "Inline", <<inline_class>>,
                         With(NoAttrs, "model", Scalar(Mdl(model_enhancement))))
           inlines == PyAdd(GetAttr(ti.heap, admin_class, "inlines", List(<<>>)),
                            List(<<Cls(ti.cls)>>))
           tn == TypeNew(ti.heap, "NewModelAdmin", <<admin_class>>,
                         With(NoAttrs, "inlines", inlines))
           rg == SiteRegister(un.reg, model_class, tn.cls)
       IN IF un.err # "none"
          THEN Done(Raised(call, <<"unregister">>, un.err), registry, classes)
          ELSE IF ti.err # "none"
          THEN Done(Raised(call, <<"unregister">>, ti.err), un.reg, classes)
          ELSE IF inlines.kind = "TypeError"
          THEN Done(Raised(call, <<"unregister">>, "TypeError"), un.reg, ti.heap)
          ELSE IF tn.err # "none"
          THEN Done(Raised(call, <<"unregister">>, tn.err), un.reg, ti.heap)
          ELSE IF rg.err # "none"
          THEN Done(Raised(call, <<"unregister", "register">>, rg.err), un.reg, tn.heap)
          ELSE Done(Returned(call, <<"unregister", "register">>, tn.cls), rg.reg, tn.heap)


\* Lines 57-62 and 73-76: the new list_display.
new_list_display_append(list_display, column, prepend) ==
    Append(PyList(list_display).items, column)

new_list_display(list_display, column, prepend) ==
    IF prepend
    THEN <<column>> \o PyList(list_display).items
    ELSE Append(PyList(list_display).items, column)

\* Lines 63-71 and 78-79: the new list_display_links.
new_list_display_links_any(list_display, list_display_links, column, link) ==
    LET links == IF Truthy(list_display) /\ ~Truthy(list_display_links)
                 THEN List(<<list_display.items[1]>>)
                 ELSE list_display_links
    IN IF link
       THEN Append(PyList(links).items, column)
       ELSE PyList(links).items

new_list_display_links(list_display, list_display_links, column, link) ==
    LET links == IF Truthy(list_display) /\ ~Truthy(list_display_links)
                 THEN List(<<list_display.items[1]>>)
                 ELSE list_display_links
    IN IF link /\ IsBasestring(column)
       THEN Append(PyList(links).items, column)
       ELSE PyList(links).items

add_column_to_changelist(model_class, column, link, prepend) ==
    /\ ncalls < MaxCalls
    /\ UNCHANGED result
    /\ LET admin_class == get_admin_class(registry, model_class)
           call == [Call("add_column_to_changelist", model_class)
                       EXCEPT !.column = column, !.link = link, !.prepend = prepend]
           un == SiteUnregister(registry, model_class)
           old_display == PyList(GetAttr(classes, admin_class, "list_display",
                                         List(<<Str("pk")>>)))
           old_links == GetAttr(classes, admin_class, "list_display_links", List(<<>>))
           display == new_list_display(old_display, column, prepend)
           links == new_list_display_links(old_display, old_links, column, link)
           tn == TypeNew(classes, "NewModelAdmin", <<admin_class>>,
                         [NoAttrs EXCEPT !["list_display"] = List(display),
                                         !["list_display_links"] = List(links)])
           rg == SiteRegister(un.reg, model_class, tn.cls)
       IN IF un.err # "none"
          THEN Done(Raised(call, <<"unregister">>, un.err), registry, classes)
          ELSE IF tn.err # "none"
          THEN Done(Raised(call, <<"unregister">>, tn.err), un.reg, classes)
          ELSE IF rg.err # "none"
          THEN Done(Raised(call, <<"unregister", "register">>, rg.err), un.reg, tn.heap)
          ELSE Done(Returned(call, <<"unregister", "register">>, tn.cls), rg.reg, tn.heap)

override_admin(model_class, admin_enhancement, prefer_new) ==
    /\ ncalls < MaxCalls
    /\ UNCHANGED result
    /\ LET admin_class == get_admin_class(registry, model_class)
           call == [Call("override_admin", model_class)
                       EXCEPT !.enh = admin_enhancement, !.prefer_new = prefer_new]
           x == IF prefer_new THEN admin_enhancement ELSE admin_class
           y == IF prefer_new THEN admin_class ELSE admin_enhancement
           tn == TypeNew(classes, "NewModelAdmin", <<x, y>>, NoAttrs)
           rg == SiteRegister(registry, model_class, tn.cls)
       IN IF tn.err # "none"
          THEN Done(Raised(call, <<>>, tn.err), registry, classes)
          ELSE IF rg.err # "none"
          THEN Done(Raised(call, <<"register">>, rg.err), registry, tn.heap)
          ELSE Done(Returned(call, <<"register">>, tn.cls), rg.reg, tn.heap)

Next ==
    \/ \E m \in Models : GetAdminClass(m)
    \/ \E m \in Models, e \in EnhancementModels, ic \in InlineBases :
          attach_inline_to_admin(m, e, ic)
    \/ \E m \in Models, c \in Columns, link \in BOOLEAN, prepend \in BOOLEAN :
          add_column_to_changelist(m, c, link, prepend)
    \/ \E m \in Models, enh \in Enhancements, prefer_new \in BOOLEAN :
          override_admin(m, enh, prefer_new)

Spec == Init /\ [][Next]_vars

TypeOK ==
    /\ registry \in [Models -> 0..Len(classes)]
    /\ ncalls \in 0..MaxCalls
    /\ \A i \in 1..Len(classes) : classes[i].mro[1] = i

(***************************************************************************)
(* Properties.  A call is judged in the state it leaves: last is the call  *)
(* that produced the state, prev the call before it.                       *)
(***************************************************************************)
Composers == {"attach_inline_to_admin", "add_column_to_changelist", "override_admin"}
Registered(m) == registry[m] # NoClass
\* The effective value of an attribute of the class registered for m.
Now(m, name) == GetAttr(classes, registry[m], name, Absent)
\* x is an inline class made by attach_inline_to_admin for model e.
InlineBoundTo(x, e, ic) ==
    /\ x.t = "cls"
    /\ classes[x.c].bases = <<ic>>
    /\ classes[x.c].attrs["model"] = Scalar(Mdl(e))

\* C1: after any composer call, from any registry state, the registry holds
\* an admin class for the model of the call.
C1_OneRegistration ==
    last.op \in Composers => Registered(last.model)

\* C2: a composer call on a model that is not registered raises no error,
\* takes admin.ModelAdmin as the current class and ends with a class derived
\* from it registered for the model.
C2_UnregisteredIsNoError ==
    (last.op \in Composers /\ last.preReg = NoClass) =>
        /\ last.err = "none"
        /\ last.admin_class = ModelAdmin
        /\ Registered(last.model)
        /\ \E i \in 2..Len(classes[registry[last.model]].mro) :
              classes[registry[last.model]].mro[i] = ModelAdmin

\* C3: override_admin on a registered model performs one unregister followed
\* by one register and ends with the new class, whose bases are the
\* previously registered class and the enhancement, registered in place of
\* the previous one.
C3_OverrideReplaces ==
    (last.op = "override_admin" /\ last.preReg # NoClass) =>
        /\ last.siteOps = <<"unregister", "register">>
        /\ last.err = "none"
        /\ Registered(last.model)
        /\ registry[last.model] # last.preReg
        /\ classes[registry[last.model]].bases =
              IF last.prefer_new THEN <<last.enh, last.preReg>>
                                 ELSE <<last.preReg, last.enh>>

\* C4: two attach_inline_to_admin calls in a row on a registered model, with
\* enhancement models E1 then E2, leave a registered class whose inlines are
\* the inlines declared before the first call, in order, followed by an
\* inline bound to E1 and an inline bound to E2, whatever sequence type the
\* inlines attribute had.
C4_AttachCumulative ==
    (/\ prev.op = "attach_inline_to_admin"
     /\ last.op = "attach_inline_to_admin"
     /\ prev.model = last.model
     /\ prev.preReg # NoClass) =>
        /\ Registered(last.model)
        /\ LET before == prev.preInlines.items
               after == Now(last.model, "inlines").items
               n == Len(before)
           IN /\ Len(after) = n + 2
              /\ SubSeq(after, 1, n) = before
              /\ InlineBoundTo(after[n + 1], prev.e, prev.ic)
              /\ InlineBoundTo(after[n + 2], last.e, last.ic)

\* C5: after every composer call that does not ask for prefer_new, on a
\* model that had a registered class, the class registered afterwards has
\* every inline, list_display column and list_display_links entry the class
\* registered before the call had.
C5_ConfigurationSuperset ==
    (/\ last.op \in Composers
     /\ ~last.prefer_new
     /\ last.preReg # NoClass) =>
        /\ Registered(last.model)
        /\ Elems(last.preInlines) \subseteq Elems(Now(last.model, "inlines"))
        /\ Elems(last.preLD) \subseteq Elems(Now(last.model, "list_display"))
        /\ Elems(last.preLinks) \subseteq Elems(Now(last.model, "list_display_links"))

\* C6 as stated: after add_column_to_changelist on a registered model, a text
\* column with link=True is in list_display_links, and with a callable column
\* list_display_links equals the list_display_links before the call.
C6_LinksAsStated ==
    (last.op = "add_column_to_changelist" /\ last.preReg # NoClass) =>
        /\ Registered(last.model)
        /\ (last.link /\ last.column.t = "str") =>
               last.column \in Elems(Now(last.model, "list_display_links"))
        /\ last.column.t = "callable" =>
               Now(last.model, "list_display_links").items = last.preLinks.items

\* C6 amended: after add_column_to_changelist on a registered model, a text
\* column with link=True is the last entry of list_display_links; a callable
\* column is never added, and list_display_links then holds the entries it
\* held before the call, or, when it held none and list_display held some,
\* the first column of the previous list_display alone.
C6_LinksAmended ==
    (last.op = "add_column_to_changelist" /\ last.preReg # NoClass) =>
        /\ Registered(last.model)
        /\ LET base == IF Len(last.preLinks.items) = 0 /\ Len(last.preLD.items) > 0
                       THEN <<last.preLD.items[1]>>
                       ELSE last.preLinks.items
               after == Now(last.model, "list_display_links").items
           IN /\ (last.link /\ last.column.t = "str") =>
                     after = Append(base, last.column)
              /\ last.column.t = "callable" =>
                     /\ after = base
                     /\ last.column \notin Elems(Now(last.model, "list_display_links"))

\* The case of C6: a callable column added with link=True to a registered
\* class that declares no list_display_links.
C6_Witness ==
    /\ last.op = "add_column_to_changelist"
    /\ last.preReg # NoClass
    /\ last.column.t = "callable"
    /\ last.link
    /\ Len(last.preLinks.items) = 0
    /\ Len(last.preLD.items) > 0
    /\ last.err = "none"
    /\ Registered(last.model)

\* C7: after override_admin on a model with a registered class, a new class
\* is registered on which every attribute that the previously registered
\* class and the enhancement both define resolves to the previous class's
\* value when prefer_new is False and to the enhancement's value when
\* prefer_new is True.
C7_Precedence ==
    (last.op = "override_admin" /\ last.preReg # NoClass) =>
        \A a \in AttrNames :
            (HasAttr(classes, last.preReg, a) /\ HasAttr(classes, last.enh, a)) =>
                /\ last.made # NoClass
                /\ registry[last.model] = last.made
                /\ Now(last.model, a) =
                      IF last.prefer_new
                      THEN GetAttr(classes, last.enh, a, Absent)
                      ELSE GetAttr(classes, last.preReg, a, Absent)

\* The list_display one add_column_to_changelist call makes of list_display d.
Placed(d, call) ==
    IF call.prepend THEN <<call.column>> \o d ELSE d \o <<call.column>>

\* C8: add_column_to_changelist on a registered model puts the column first
\* in list_display when prepend=True and last when prepend=False, the other
\* elements being the previous list_display in order; two calls in a row
\* leave the result of both, in call order.
C8_ColumnPlacement ==
    (last.op = "add_column_to_changelist" /\ last.preReg # NoClass) =>
        /\ Registered(last.model)
        /\ Now(last.model, "list_display").items = Placed(last.preLD.items, last)
        /\ (/\ prev.op = "add_column_to_changelist"
            /\ prev.model = last.model
            /\ prev.preReg # NoClass) =>
               Now(last.model, "list_display").items =
                   Placed(Placed(prev.preLD.items, prev), last)

\* The case of C8: an appending call followed by a prepending call on a
\* class that had two columns.
C8_Witness ==
    /\ prev.op = "add_column_to_changelist"
    /\ last.op = "add_column_to_changelist"
    /\ prev.model = last.model
    /\ prev.preReg # NoClass
    /\ ~prev.prepend
    /\ last.prepend
    /\ Len(prev.preLD.items) = 2
    /\ Len(Now(last.model, "list_display").items) = 4

\* C9: get_admin_class returns admin.ModelAdmin for a model with no registry
\* entry, and for a registered model the class of the registry entry, which
\* is the class registered by the most recent successful composer call for
\* the model when there was one.
C9_GetAdminClass ==
    last.op = "get_admin_class" =>
        /\ ~Registered(last.model) => result = ModelAdmin
        /\ Registered(last.model) =>
              /\ result = registry[last.model]
              /\ lastOk[last.model] # NoClass => result = lastOk[last.model]

\* The case of C9: get_admin_class after a successful composer call.
C9_Witness ==
    /\ last.op = "get_admin_class"
    /\ prev.op \in Composers
    /\ prev.err = "none"
    /\ Registered(last.model)
    /\ result = prev.made
    /\ result # ModelAdmin

\* C10: a composer call that ends in an error leaves the registry entry of
\* the model as it was before the call.
C10_FailureIsAtomic ==
    (last.op \in Composers /\ last.err # "none") =>
        registry[last.model] = last.preReg

====
